---- MODULE Spec2Model ----
(***************************************************************************)
(* Model of the asynchronous task queue of app/queue_manager.py:           *)
(* QueueManager with its worker thread(s), the one-shot retry timers and   *)
(* the callers of add_task, cancel_task, clear_completed_tasks,            *)
(* register_callback, start_processing and stop_processing; and of the     *)
(* response cache of app/cache_manager.py: CacheManager with its callers   *)
(* and the background cleanup thread, and the derivation of its keys; and  *)
(* of the proxy pool and the request executor of app/anti_bot.py:          *)
(* ProxyManager and AntiBotManager.make_request with the threads that      *)
(* call them.                                                              *)
(*                                                                         *)
(* Granularity.  Everything a method does while it holds self.lock is one  *)
(* action, except cancel_task: the worker writes task fields without the   *)
(* lock (_process_task, _handle_task_failure), so its writes can land      *)
(* inside cancel_task's critical section; cancel_task is therefore three   *)
(* steps (test, status write, rest).  The worker is one action per         *)
(* unlocked stretch between two points where another thread can observe    *)
(* or change the task it holds.                                            *)
(***************************************************************************)
EXTENDS Integers, Sequences, FiniteSets, TLC

\* ---------------------------------------------------------------- bounds
MaxTasks == 2            \* add_task calls in one run (ids 1..MaxTasks)
MaxWorkers == 2          \* worker threads alive at the same time
MaxTime == 2             \* clock values 1..MaxTime (hours)
MaxRetriesArg == 2       \* max_retries arguments 0..MaxRetriesArg

QueueTasks == 3          \* add_task calls in a run of SpecQueue
HandlerTasks == 2        \* add_task calls in a run of SpecHandlers
QueueRetries == 2        \* max_retries of the tasks of SpecQueue
BackoffRetries == 8      \* max_retries of the task of SpecBackoff

MaxSizeArg == 2          \* max_size arguments 0..MaxSizeArg
MaxCount == 2            \* cap of the counters of the cache statistics
MaxProxies == 2          \* configured proxy endpoints 0..MaxProxies
MaxThreads == 2          \* threads that share one ProxyManager

Priorities == {0, 1}                    \* 0 = normal, 1 = high
QueuePriorities == {0 - 1, 0, 1}        \* -1 = low, 0 = normal, 1 = high
RetryArgs == 0..MaxRetriesArg
HoursArgs == {0, 1}                     \* older_than_hours arguments

\* ------------------------------------------------------------- constants
BackoffCap == 60         \* min(60, ...)
BackoffBase == 2         \* 2 ** retry_count

GlobalMaxSize == 1000    \* cache_manager = CacheManager(max_size=1000, ...)
DefaultTtl == 1          \* default_ttl = 3600 seconds, in hours

\* TaskStatus
PENDING == "pending"
PROCESSING == "processing"
COMPLETED == "completed"
FAILED == "failed"
RETRYING == "retrying"
TaskStatus == {PENDING, PROCESSING, COMPLETED, FAILED, RETRYING}

\* values of ScrapingTask.error_message
NoError == "none"                      \* None
AttemptFailed == "tentativa falhou"    \* f"Tentativa {retry_count} falhou"
ScraperRaised == "str(e)"              \* str(e) of the exception
Cancelled == "Cancelada pelo usuario"

VARIABLES
    tasks,       \* self.tasks: id -> ScrapingTask (the fields the queue uses)
    queue,       \* self.queue: ids ordered by priority
    processing,  \* self.processing
    running,     \* self.running
    stats,       \* self.stats
    worker,      \* the threads running _process_queue: slot -> [pc, task]
    timers,      \* started threading.Timer objects not yet fired: [id, delay]
    cancel,      \* the cancel_task call in flight / its last return value
    nextId,      \* number of ids handed out by uuid4 so far
    now,         \* time.time(), in hours
    calls,       \* id -> number of calls of _execute_scraping for the task
    callbacks,   \* self.callbacks: the events whose registered handler raises
    handler_errors,  \* lines logged by _trigger_callback's except branch
    cache,       \* CacheManager.cache: key -> CacheEntry
    access_order,    \* CacheManager.access_order: keys, least recent first
    cache_stats, \* CacheManager.stats
    max_size,    \* CacheManager.max_size
    proxies,     \* ProxyManager.proxies: the configured endpoints
    failed_proxies,  \* ProxyManager.failed_proxies: indices into proxies
    current_proxy_index,  \* ProxyManager.current_proxy_index
    thread,      \* the callers of ProxyManager / AntiBotManager.make_request
    generated,   \* the calls _generate_key was applied to, with their keys
    cached_call  \* the call of a cached_scraper wrapper: [pc, key, ...]

\* The variables of the cache.
cacheVars == <<cache, access_order, cache_stats, max_size>>

\* What the handlers registered with register_callback have left behind.
handlerVars == <<callbacks, handler_errors>>

\* The variables of the proxy pool and of the threads that use it.
proxyVars == <<proxies, failed_proxies, current_proxy_index, thread>>

\* The variables of the task queue.
queueVars == <<tasks, queue, processing, running, stats, worker, timers,
               cancel, nextId, now, calls>>

\* The variables of the callers of _generate_key.
keyVars == <<generated, cached_call>>

vars == <<queueVars, handlerVars, cacheVars, proxyVars, keyVars>>

\* ScrapingTask(...), as add_task builds it.  completed_at is 0 for None;
\* started_at, whose value nothing reads, is 0 for None and 1 for a time.
ScrapingTask(priority, max_retries) ==
    [status |-> PENDING, started_at |-> 0, completed_at |-> 0,
     retry_count |-> 0, max_retries |-> max_retries,
     error_message |-> NoError, result |-> FALSE, priority |-> priority]

\* ------------------------------------------------------ _insert_into_queue
RECURSIVE InsertPosFrom(_, _, _, _)
\* The for loop of _insert_into_queue from index i (1-based) on: the index
\* before which the task is inserted.
InsertPosFrom(q, t, prio, i) ==
    IF i > Len(q) THEN Len(q) + 1
    ELSE IF prio > t[q[i]].priority THEN i
    ELSE InsertPosFrom(q, t, prio, i + 1)

RECURSIVE InsertPosAscendingFrom(_, _, _, _)
InsertPosAscendingFrom(q, t, prio, i) ==
    IF i > Len(q) THEN Len(q) + 1
    ELSE IF prio < t[q[i]].priority THEN i
    ELSE InsertPosAscendingFrom(q, t, prio, i + 1)

\* _insert_into_queue with the comparison turned round (<).
InsertPosAscending(q, t, prio) == InsertPosAscendingFrom(q, t, prio, 1)

RECURSIVE InsertPosNotLowerFrom(_, _, _, _)
InsertPosNotLowerFrom(q, t, prio, i) ==
    IF i > Len(q) THEN Len(q) + 1
    ELSE IF prio >= t[q[i]].priority THEN i
    ELSE InsertPosNotLowerFrom(q, t, prio, i + 1)

\* _insert_into_queue with >= for >: a new task overtakes its equals.
InsertPosNotLower(q, t, prio) == InsertPosNotLowerFrom(q, t, prio, 1)

\* An insertion at the head of the queue, whatever the priorities.
InsertPosFront(q, t, prio) == 1

InsertPos(q, t, prio) == InsertPosFrom(q, t, prio, 1)

InsertAt(q, pos, id) ==
    SubSeq(q, 1, pos - 1) \o <<id>> \o SubSeq(q, pos, Len(q))

InsertIntoQueue(q, t, id) == InsertAt(q, InsertPos(q, t, t[id].priority), id)

\* ---------------------------------------------------------------- helpers
\* The worker holding self.lock from the dequeue to the end of the task.
LockedPcsWholeTask == {"start", "scraping", "finally"}

\* The places between its steps at which a worker thread holds self.lock:
\* none; it takes the lock in _get_next_task and in the finally block of
\* _process_task and releases it there.
LockedPcs == {}

\* self.lock is free: cancel_task is not inside its critical section (the
\* other critical sections are single steps) and no worker holds it.
LockFree ==
    /\ cancel.pc = "idle"
    /\ \A w \in DOMAIN worker : worker[w].pc \notin LockedPcs

Workers == DOMAIN worker

FreeSlots == {w \in Workers : worker[w].pc = "none"}

Min(a, b) == IF a < b THEN a ELSE b

RECURSIVE Pow(_, _)
Pow(b, n) == IF n = 0 THEN 1 ELSE b * Pow(b, n - 1)

\* The delay without its cap: 2 ** task.retry_count.
RetryDelayUncapped(retry_count) == Pow(BackoffBase, retry_count)

\* delay = min(60, 2 ** task.retry_count)
RetryDelay(retry_count) == Min(BackoffCap, Pow(BackoffBase, retry_count))

RECURSIVE Without(_, _)
\* [tid for tid in self.queue if tid != task_id]
Without(q, id) ==
    IF q = <<>> THEN <<>>
    ELSE IF Head(q) = id THEN Without(Tail(q), id)
    ELSE <<Head(q)>> \o Without(Tail(q), id)

\* ------------------------------------------------------ _trigger_callback
\* The events add_task and the worker trigger.
Events == {"task_added", "task_started", "task_completed",
           "task_retrying", "task_failed"}

\* _trigger_callback without its try/except.
TriggerCallbackUncaught(event) == event \in callbacks

\* Whether an exception of the handler of the event reaches the caller of
\* _trigger_callback: never, `except Exception` catches it and logs it.
TriggerCallback(event) == FALSE

\* The lines _trigger_callback logs for the event: one when its handler raises.
Logged(event) == IF event \in callbacks THEN 1 ELSE 0

\* ------------------------------------------------------------- the threads
\* The worker thread started without daemon=True.
WorkerNotDaemon == FALSE

\* threading.Thread(target=self._process_queue, daemon=True)
WorkerDaemon == TRUE

\* threading.Timer(delay, self._retry_task, [task.id]) is given no daemon
\* flag: a thread inherits it from the thread that creates it, which is the
\* worker (_handle_task_failure has no other caller than _process_task).
TimerDaemon == WorkerDaemon

\* threading.Thread(target=cleanup_worker, daemon=True)
SweeperDaemon == TRUE

\* CacheManager(max_size): the state after __init__.
CacheInit(size) ==
    /\ cache = <<>>
    /\ access_order = <<>>
    /\ cache_stats = [hits |-> 0, misses |-> 0, evictions |-> 0,
                      expired_cleanups |-> 0]
    /\ max_size = size

\* A CachedScraper before its first call, with its ttl.  None, as a
\* function result or as the return value of get(), is NoData.
NoData == "None"
WrapperTtl == 1          \* CachedScraper(cache_manager): ttl = 3600 s
NoCall ==
    [pc |-> "idle", key |-> "none", invoked |-> 0, returned |-> NoData,
     ttl |-> WrapperTtl]

\* What a thread holds while it is outside get_next_proxy and make_request.
NoProxy == "None"
Idle ==
    [pc |-> "idle", op |-> "none", attempt |-> 0, headers |-> 0, gets |-> 0,
     proxy |-> NoProxy, available |-> <<>>, result |-> "none",
     response |-> [kind |-> "none", status |-> 0, text |-> FALSE]]

\* ProxyManager() over the endpoints _load_proxies found in the
\* configuration, and no call in flight.
ProxyInit(pool) ==
    /\ proxies = pool
    /\ failed_proxies = {}
    /\ current_proxy_index = 0
    /\ thread = [t \in 1..MaxThreads |-> Idle]

\* ------------------------------------------------------------------- Init
Init ==
    /\ tasks = <<>>
    /\ queue = <<>>
    /\ processing = {}
    /\ running = FALSE
    /\ stats = [total_tasks |-> 0, completed_tasks |-> 0,
                failed_tasks |-> 0, retry_tasks |-> 0]
    /\ worker = [w \in 1..MaxWorkers |-> [pc |-> "none", task |-> 0]]
    /\ timers = {}
    /\ cancel = [pc |-> "idle", id |-> 0]
    /\ nextId = 0
    /\ now = 1
    /\ calls = <<>>
    /\ callbacks = {}
    /\ handler_errors = 0
    /\ CacheInit(GlobalMaxSize)
    /\ ProxyInit(<<>>)
    /\ generated = <<>>
    /\ cached_call = NoCall

\* ----------------------------------------------------------------- add_task
\* add_task(priority, max_retries): the task is stored and queued under the
\* lock; then the task_added handler; then start_processing() if the worker
\* is not running.
\* add_task that starts the worker for the first task only.
NeedsStartFirstOnly == ~running /\ nextId = 0

\* `if not self.running:` of add_task
NeedsStart == ~running

AddTask(priority, max_retries) ==
    /\ LockFree
    /\ running \/ FreeSlots # {}
    /\ LET id == nextId + 1
           t == (id :> ScrapingTask(priority, max_retries)) @@ tasks
       IN /\ tasks' = t
          /\ queue' = InsertIntoQueue(queue, t, id)
          /\ nextId' = id
          /\ calls' = (id :> 0) @@ calls
    /\ stats' = [stats EXCEPT !.total_tasks = @ + 1]
    /\ handler_errors' = handler_errors + Logged("task_added")
    /\ IF TriggerCallback("task_added") \/ ~NeedsStart
       THEN UNCHANGED <<running, worker>>
       ELSE /\ running' = TRUE
            /\ LET w == CHOOSE x \in FreeSlots : \A y \in FreeSlots : x <= y
               IN worker' = [worker EXCEPT ![w] = [pc |-> "loop", task |-> 0]]
    /\ UNCHANGED <<processing, timers, cancel, now, callbacks, cacheVars,
                 proxyVars, keyVars>>

\* register_callback(event, callback) with a callback that raises.
RegisterCallback(event) ==
    /\ event \notin callbacks
    /\ callbacks' = callbacks \cup {event}
    /\ UNCHANGED <<tasks, queue, processing, running, stats, worker, timers,
                   cancel, nextId, now, calls, handler_errors, cacheVars,
                 proxyVars, keyVars>>

\* --------------------------------------------- start / stop_processing
\* start_processing(): returns at once when running; else sets running and
\* starts a new daemon thread on _process_queue.
StartProcessing ==
    /\ ~running
    /\ FreeSlots # {}
    /\ running' = TRUE
    /\ LET w == CHOOSE x \in FreeSlots : \A y \in FreeSlots : x <= y
       IN worker' = [worker EXCEPT ![w] = [pc |-> "loop", task |-> 0]]
    /\ UNCHANGED <<tasks, queue, processing, stats, timers, cancel, nextId,
                   now, calls, handlerVars, cacheVars,
                 proxyVars, keyVars>>

\* stop_processing(): clears running; join(timeout=5) gives up on a worker
\* that is still inside a task.
StopProcessing ==
    /\ running
    /\ running' = FALSE
    /\ UNCHANGED <<tasks, queue, processing, stats, worker, timers, cancel,
                   nextId, now, calls, handlerVars, cacheVars,
                 proxyVars, keyVars>>

\* ------------------------------------------------------------ the worker
\* _process_queue: `while self.running` is false: the thread ends.
WorkerExit(w) ==
    /\ worker[w].pc = "loop"
    /\ ~running
    /\ worker' = [worker EXCEPT ![w] = [pc |-> "none", task |-> 0]]
    /\ UNCHANGED <<tasks, queue, processing, running, stats, timers,
                   cancel, nextId, now, calls, handlerVars, cacheVars,
                 proxyVars, keyVars>>

\* _get_next_task with a non-empty queue (with an empty one the worker
\* sleeps and nothing changes): pop(0) and processing.add under the lock.
WorkerGetNext(w) ==
    /\ worker[w].pc = "loop"
    /\ running
    /\ LockFree
    /\ queue # <<>>
    /\ queue' = Tail(queue)
    /\ processing' = processing \cup {Head(queue)}
    /\ worker' = [worker EXCEPT ![w] = [pc |-> "start", task |-> Head(queue)]]
    /\ UNCHANGED <<tasks, running, stats, timers, cancel, nextId,
                   now, calls, handlerVars, cacheVars,
                 proxyVars, keyVars>>

\* _handle_task_failure that schedules a retry whatever the count.
WillRetryAlways(t) == TRUE

\* _handle_task_failure(task) on the task record t: whether it schedules a
\* retry, the record after it, and the event it triggers.
WillRetry(t) == t.retry_count + 1 < t.max_retries

HandleTaskFailure(t) ==
    IF WillRetry(t)
    THEN [t EXCEPT !.retry_count = @ + 1, !.status = RETRYING,
                   !.error_message = AttemptFailed]
    ELSE [t EXCEPT !.retry_count = @ + 1, !.status = FAILED,
                   !.completed_at = now]

FailureEvent(t) == IF WillRetry(t) THEN "task_retrying" ELSE "task_failed"

\* _handle_task_failure that starts no timer for the retry.
FailureOfNoTimer(s, id) ==
    LET t == s.tasks[id]
    IN [tasks |-> [s.tasks EXCEPT ![id] = HandleTaskFailure(t)],
        timers |-> s.timers,
        stats |-> [s.stats EXCEPT
                     !.retry_tasks = IF WillRetry(t) THEN @ + 1 ELSE @,
                     !.failed_tasks = IF WillRetry(t) THEN @ ELSE @ + 1]]

\* _handle_task_failure(self.tasks[id]) on s = [tasks, timers, stats]: the
\* three after it.
FailureOf(s, id) ==
    LET t == s.tasks[id]
        after == HandleTaskFailure(t)
    IN IF WillRetry(t)
       THEN [tasks |-> [s.tasks EXCEPT ![id] = after],
             timers |-> s.timers \cup
                          {[id |-> id, delay |-> RetryDelay(after.retry_count),
                            daemon |-> TimerDaemon]},
             stats |-> [s.stats EXCEPT !.retry_tasks = @ + 1]]
       ELSE [tasks |-> [s.tasks EXCEPT ![id] = after],
             timers |-> s.timers,
             stats |-> [s.stats EXCEPT !.failed_tasks = @ + 1]]

\* `except Exception as e` of _process_task on s: error_message = str(e),
\* then _handle_task_failure.
ExceptBranch(s, id) ==
    FailureOf([s EXCEPT !.tasks[id].error_message = ScraperRaised], id)

\* self.tasks, the timers and self.stats as the worker finds them.
Current == [tasks |-> tasks, timers |-> timers, stats |-> stats]

\* _process_task up to the call of the scraper: without the lock,
\* status = PROCESSING and started_at = time.time(), the task_started
\* handler, and _execute_scraping is called.  A task that is no longer in
\* self.tasks makes _process_task return before its try/finally.
WorkerStart(w) ==
    /\ worker[w].pc = "start"
    /\ LET id == worker[w].task
           s == [Current EXCEPT !.tasks[id].status = PROCESSING,
                                !.tasks[id].started_at = 1]
       IN IF id \notin DOMAIN tasks
          THEN /\ worker' = [worker EXCEPT ![w] = [pc |-> "loop", task |-> 0]]
               /\ UNCHANGED <<tasks, timers, stats, calls, handler_errors>>
          ELSE IF TriggerCallback("task_started")
          THEN /\ tasks' = ExceptBranch(s, id).tasks
               /\ timers' = ExceptBranch(s, id).timers
               /\ stats' = ExceptBranch(s, id).stats
               /\ worker' = [worker EXCEPT ![w].pc = "finally"]
               /\ UNCHANGED <<calls, handler_errors>>
          ELSE /\ tasks' = s.tasks
               /\ calls' = [calls EXCEPT ![id] = @ + 1]
               /\ handler_errors' = handler_errors + Logged("task_started")
               /\ worker' = [worker EXCEPT ![w].pc = "scraping"]
               /\ UNCHANGED <<timers, stats>>
    /\ UNCHANGED <<queue, processing, running, cancel, nextId, now,
                   callbacks, cacheVars,
                 proxyVars, keyVars>>

\* _execute_scraping returned a product: the success branch of
\* _process_task, with the task_completed handler at its end.
WorkerSucceed(w) ==
    /\ worker[w].pc = "scraping"
    /\ LET id == worker[w].task
           s == [Current EXCEPT !.tasks[id].status = COMPLETED,
                                !.tasks[id].completed_at = now,
                                !.tasks[id].result = TRUE,
                                !.stats.completed_tasks = @ + 1]
           r == IF TriggerCallback("task_completed")
                THEN ExceptBranch(s, id) ELSE s
       IN /\ tasks' = r.tasks
          /\ timers' = r.timers
          /\ stats' = r.stats
    /\ handler_errors' = handler_errors + Logged("task_completed")
    /\ worker' = [worker EXCEPT ![w].pc = "finally"]
    /\ UNCHANGED <<queue, processing, running, cancel, nextId, now, calls,
                   callbacks, cacheVars,
                 proxyVars, keyVars>>

\* _execute_scraping returned nothing (raised = FALSE) or raised: the
\* failure branches of _process_task, through _handle_task_failure, with
\* the task_retrying or task_failed handler at its end.  (A handler's
\* exception leaving the call of line 218 would arrive in the except
\* branch, one leaving the call of line 223 in _process_queue.)
WorkerFail(w, raised) ==
    /\ worker[w].pc = "scraping"
    /\ LET id == worker[w].task
           s == IF raised THEN ExceptBranch(Current, id)
                          ELSE FailureOf(Current, id)
           r == IF ~raised /\ TriggerCallback(FailureEvent(tasks[id]))
                THEN ExceptBranch(s, id) ELSE s
       IN /\ tasks' = r.tasks
          /\ timers' = r.timers
          /\ stats' = r.stats
          /\ handler_errors' =
                 handler_errors + Logged(FailureEvent(tasks[id]))
    /\ worker' = [worker EXCEPT ![w].pc = "finally"]
    /\ UNCHANGED <<queue, processing, running, cancel, nextId, now, calls,
                   callbacks, cacheVars,
                 proxyVars, keyVars>>

\* finally: processing.discard(task_id) under the lock; back to the loop.
WorkerFinally(w) ==
    /\ worker[w].pc = "finally"
    /\ LockFree
    /\ processing' = processing \ {worker[w].task}
    /\ worker' = [worker EXCEPT ![w] = [pc |-> "loop", task |-> 0]]
    /\ UNCHANGED <<tasks, queue, running, stats, timers, cancel, nextId,
                   now, calls, handlerVars, cacheVars,
                 proxyVars, keyVars>>

\* ------------------------------------------------------------ _retry_task
\* The timer tm fires: under the lock, a task still in self.tasks becomes
\* PENDING, loses started_at and is inserted into the queue.
RetryTask(tm) ==
    /\ tm \in timers
    /\ LockFree
    /\ timers' = timers \ {tm}
    /\ IF tm.id \in DOMAIN tasks
       THEN LET t == [tasks EXCEPT ![tm.id].status = PENDING,
                                   ![tm.id].started_at = 0]
            IN /\ tasks' = t
               /\ queue' = InsertIntoQueue(queue, t, tm.id)
       ELSE UNCHANGED <<tasks, queue>>
    /\ UNCHANGED <<processing, running, stats, worker, cancel, nextId,
                   now, calls, handlerVars, cacheVars,
                 proxyVars, keyVars>>

\* ------------------------------------------------------------ cancel_task
Cancellable(id) ==
    /\ id \in DOMAIN tasks
    /\ tasks[id].status \in {PENDING, RETRYING}

\* cancel_task(id) takes the lock and tests the task: it returns False and
\* nothing has changed, or it goes on to its writes.
CancelTest(id) ==
    /\ cancel.pc = "idle"
    /\ IF Cancellable(id)
       THEN cancel' = [pc |-> "passed", id |-> id]
       ELSE UNCHANGED cancel
    /\ UNCHANGED <<tasks, queue, processing, running, stats, worker,
                   timers, nextId, now, calls, handlerVars, cacheVars,
                 proxyVars, keyVars>>

\* task.status = TaskStatus.FAILED
CancelWriteStatus ==
    /\ cancel.pc = "passed"
    /\ tasks' = [tasks EXCEPT ![cancel.id].status = FAILED]
    /\ cancel' = [cancel EXCEPT !.pc = "written"]
    /\ UNCHANGED <<queue, processing, running, stats, worker, timers,
                   nextId, now, calls, handlerVars, cacheVars,
                 proxyVars, keyVars>>

\* error_message, the queue without the id, return True (lock released).
CancelFinish ==
    /\ cancel.pc = "written"
    /\ tasks' = [tasks EXCEPT ![cancel.id].error_message = Cancelled]
    /\ queue' = Without(queue, cancel.id)
    /\ cancel' = [pc |-> "idle", id |-> 0]
    /\ UNCHANGED <<processing, running, stats, worker, timers, nextId,
                   now, calls, handlerVars, cacheVars,
                 proxyVars, keyVars>>

\* -------------------------------------------------- clear_completed_tasks
\* to_remove without the test of completed_at against the cutoff.
ToRemoveAnyAge(older_than_hours) ==
    {id \in DOMAIN tasks :
        /\ tasks[id].status \in {COMPLETED, FAILED}
        /\ tasks[id].completed_at # 0}

\* to_remove, with cutoff_time = time.time() - older_than_hours * 3600
ToRemove(older_than_hours) ==
    {id \in DOMAIN tasks :
        /\ tasks[id].status \in {COMPLETED, FAILED}
        /\ tasks[id].completed_at # 0
        /\ tasks[id].completed_at < now - older_than_hours}

\* return len(to_remove)
ClearReturn(older_than_hours) == Cardinality(ToRemove(older_than_hours))

ClearCompletedTasks(older_than_hours) ==
    /\ LockFree
    /\ tasks' = [id \in DOMAIN tasks \ ToRemove(older_than_hours) |-> tasks[id]]
    /\ UNCHANGED <<queue, processing, running, stats, worker, timers,
                   cancel, nextId, now, calls, handlerVars, cacheVars,
                 proxyVars, keyVars>>

\* get_queue_status(): what it returns when it runs (under the lock).
WithStatus(status) == {id \in DOMAIN tasks : tasks[id].status = status}
GetQueueStatus ==
    [total_tasks |-> Cardinality(DOMAIN tasks),
     pending_tasks |-> Len(queue),
     processing_tasks |-> Cardinality(processing),
     completed_tasks |-> Cardinality(WithStatus(COMPLETED)),
     failed_tasks |-> Cardinality(WithStatus(FAILED)),
     stats |-> stats]

\* time.time() advances.
Tick ==
    /\ now < MaxTime
    /\ now' = now + 1
    /\ UNCHANGED <<tasks, queue, processing, running, stats, worker,
                   timers, cancel, nextId, calls, handlerVars, cacheVars,
                 proxyVars, keyVars>>

\* =============================================================== the cache
Keys == {"a", "b", "c"}
Data == {"x", "y"}
None == 0 - 1                           \* ttl = None
TtlArgs == {None, 0}                    \* ttl arguments: None, 0 hours
MaxSizes == 0..MaxSizeArg

\* An entry that expires as soon as its age reaches its ttl.
IsExpiredAtTtl(entry) == now - entry.timestamp >= entry.ttl

\* CacheEntry.is_expired()
IsExpired(entry) == now - entry.timestamp > entry.ttl

\* A removal that leaves the entry where it is.
RemoveNothing(f, k) == f

\* The function f without the argument k.
Remove(f, k) == [x \in DOMAIN f \ {k} |-> f[x]]

\* get(key): a miss; or an expired entry, which is deleted; or a hit, which
\* counts the access and moves the key to the end of access_order.
GetLocked(key) ==
    /\ IF key \notin DOMAIN cache
       THEN /\ cache_stats' = [cache_stats EXCEPT !.misses = @ + 1]
            /\ UNCHANGED <<cache, access_order>>
       ELSE IF IsExpired(cache[key])
       THEN /\ cache' = Remove(cache, key)
            /\ access_order' = Without(access_order, key)
            /\ cache_stats' = [cache_stats EXCEPT !.misses = @ + 1,
                                                  !.expired_cleanups = @ + 1]
       ELSE /\ cache' = [cache EXCEPT ![key].access_count = @ + 1]
            /\ access_order' = Append(Without(access_order, key), key)
            /\ cache_stats' = [cache_stats EXCEPT !.hits = @ + 1]

\* A caller's get(key).
Get(key) ==
    /\ GetLocked(key)
    /\ UNCHANGED <<tasks, queue, processing, running, stats, worker, timers,
                   cancel, nextId, now, calls, handlerVars, max_size,
                 proxyVars, keyVars>>

\* What get(key) returns: None for a missing or an expired entry, the
\* entry's data otherwise.
GetReturn(key) ==
    IF key \notin DOMAIN cache THEN NoData
    ELSE IF IsExpired(cache[key]) THEN NoData
    ELSE cache[key].data

\* _evict_lru() on c = [cache, access_order, stats]: the three after it.
EvictLru(c) ==
    IF c.access_order = <<>> THEN c
    ELSE LET lru_key == Head(c.access_order)
         IN IF lru_key \in DOMAIN c.cache
            THEN [cache |-> Remove(c.cache, lru_key),
                  access_order |-> Tail(c.access_order),
                  stats |-> [c.stats EXCEPT !.evictions = @ + 1]]
            ELSE [c EXCEPT !.access_order = Tail(@)]

\* A capacity test that does not ask whether the key is stored already.
NeedsRoomAnyKey(key) == Cardinality(DOMAIN cache) >= max_size

\* len(self.cache) >= self.max_size and key not in self.cache
NeedsRoom(key) ==
    Cardinality(DOMAIN cache) >= max_size /\ key \notin DOMAIN cache

\* set(key, data, ttl)
SetLocked(key, data, ttl) ==
    /\ LET c0 == [cache |-> cache, access_order |-> access_order,
                  stats |-> cache_stats]
           c == IF NeedsRoom(key) THEN EvictLru(c0) ELSE c0
           entry == [data |-> data, timestamp |-> now,
                     ttl |-> IF ttl = None THEN DefaultTtl ELSE ttl,
                     access_count |-> 0]
       IN /\ cache' = (key :> entry) @@ c.cache
          /\ access_order' = Append(Without(c.access_order, key), key)
          /\ cache_stats' = c.stats

\* A caller's set(key, data, ttl).
Set(key, data, ttl) ==
    /\ SetLocked(key, data, ttl)
    /\ UNCHANGED <<tasks, queue, processing, running, stats, worker, timers,
                   cancel, nextId, now, calls, handlerVars, max_size,
                 proxyVars, keyVars>>

\* delete(key)
Delete(key) ==
    /\ IF key \in DOMAIN cache
       THEN /\ cache' = Remove(cache, key)
            /\ access_order' = Without(access_order, key)
       ELSE UNCHANGED <<cache, access_order>>
    /\ UNCHANGED <<tasks, queue, processing, running, stats, worker, timers,
                   cancel, nextId, now, calls, handlerVars, cache_stats,
                   max_size,
                 proxyVars, keyVars>>

\* clear()
Clear ==
    /\ cache' = <<>>
    /\ access_order' = <<>>
    /\ UNCHANGED <<tasks, queue, processing, running, stats, worker, timers,
                   cancel, nextId, now, calls, handlerVars, cache_stats,
                   max_size,
                 proxyVars, keyVars>>

\* A sweep that takes every entry for expired.
ExpiredKeysAll == DOMAIN cache

\* expired_keys: the keys whose entry is_expired().
ExpiredKeys == {k \in DOMAIN cache : IsExpired(cache[k])}

\* What cleanup_expired() returns: len(expired_keys).
CleanupReturn == Cardinality(ExpiredKeys)

RECURSIVE WithoutAll(_, _)
\* The sequence q without the members of the set ks.
WithoutAll(q, ks) ==
    IF q = <<>> THEN <<>>
    ELSE IF Head(q) \in ks THEN WithoutAll(Tail(q), ks)
    ELSE <<Head(q)>> \o WithoutAll(Tail(q), ks)

\* cleanup_expired(), called by anyone.
CleanupExpired ==
    /\ cache' = [k \in DOMAIN cache \ ExpiredKeys |-> cache[k]]
    /\ access_order' = WithoutAll(access_order, ExpiredKeys)
    /\ cache_stats' = [cache_stats EXCEPT
                          !.expired_cleanups = @ + Cardinality(ExpiredKeys)]
    /\ UNCHANGED <<tasks, queue, processing, running, stats, worker, timers,
                   cancel, nextId, now, calls, handlerVars, max_size,
                 proxyVars, keyVars>>

\* cleanup_worker, the thread start_cache_cleanup starts: after its sleep
\* it calls cache_manager.cleanup_expired().
CleanupWorker == CleanupExpired

\* A cache of any max_size, its callers, the cleanup thread and the clock.
InitCache ==
    /\ tasks = <<>>
    /\ queue = <<>>
    /\ processing = {}
    /\ running = FALSE
    /\ stats = [total_tasks |-> 0, completed_tasks |-> 0,
                failed_tasks |-> 0, retry_tasks |-> 0]
    /\ worker = [w \in 1..MaxWorkers |-> [pc |-> "none", task |-> 0]]
    /\ timers = {}
    /\ cancel = [pc |-> "idle", id |-> 0]
    /\ nextId = 0
    /\ now = 1
    /\ calls = <<>>
    /\ callbacks = {}
    /\ handler_errors = 0
    /\ \E size \in MaxSizes : CacheInit(size)
    /\ ProxyInit(<<>>)
    /\ generated = <<>>
    /\ cached_call = NoCall

NextCache ==
    \/ \E k \in Keys :
           /\ cache_stats.hits < MaxCount
           /\ cache_stats.misses < MaxCount
           /\ cache_stats.expired_cleanups < MaxCount
           /\ Get(k)
    \/ \E k \in Keys, d \in Data, ttl \in TtlArgs :
           cache_stats.evictions < MaxCount /\ Set(k, d, ttl)
    \/ \E k \in Keys : Delete(k)
    \/ Clear
    \/ cache_stats.expired_cleanups < MaxCount /\ CleanupExpired
    \/ cache_stats.expired_cleanups < MaxCount /\ CleanupWorker
    \/ Tick

SpecCache == InitCache /\ [][NextCache]_vars

\* ------------------------------------------------------------------- Next
Next ==
    \/ \E p \in Priorities, m \in RetryArgs : nextId < MaxTasks /\ AddTask(p, m)
    \/ StartProcessing
    \/ StopProcessing
    \/ \E w \in Workers : WorkerExit(w)
    \/ \E w \in Workers : WorkerGetNext(w)
    \/ \E w \in Workers : WorkerStart(w)
    \/ \E w \in Workers : WorkerSucceed(w)
    \/ \E w \in Workers, raised \in BOOLEAN : WorkerFail(w, raised)
    \/ \E w \in Workers : WorkerFinally(w)
    \/ \E tm \in timers : RetryTask(tm)
    \/ \E id \in 1..nextId : CancelTest(id)
    \/ CancelWriteStatus
    \/ CancelFinish
    \/ \E h \in HoursArgs : ClearCompletedTasks(h)
    \/ Tick

Spec == Init /\ [][Next]_vars

\* ------------------------------------------------- the queue, three tasks
\* Three tasks of three priorities, each retried once, and one worker: the
\* operations that touch the queue (add_task, the dequeue, the retry timer,
\* cancel_task), with the worker's steps between them.
InitQueue ==
    /\ tasks = <<>>
    /\ queue = <<>>
    /\ processing = {}
    /\ running = FALSE
    /\ stats = [total_tasks |-> 0, completed_tasks |-> 0,
                failed_tasks |-> 0, retry_tasks |-> 0]
    /\ worker = [w \in {1} |-> [pc |-> "none", task |-> 0]]
    /\ timers = {}
    /\ cancel = [pc |-> "idle", id |-> 0]
    /\ nextId = 0
    /\ now = 1
    /\ calls = <<>>
    /\ callbacks = {}
    /\ handler_errors = 0
    /\ CacheInit(GlobalMaxSize)
    /\ ProxyInit(<<>>)
    /\ generated = <<>>
    /\ cached_call = NoCall

NextQueue ==
    \/ \E p \in QueuePriorities : nextId < QueueTasks /\ AddTask(p, QueueRetries)
    \/ \E w \in Workers : WorkerGetNext(w)
    \/ \E w \in Workers : WorkerStart(w)
    \/ \E w \in Workers : WorkerSucceed(w)
    \/ \E w \in Workers : WorkerFail(w, FALSE)
    \/ \E w \in Workers : WorkerFinally(w)
    \/ \E tm \in timers : RetryTask(tm)
    \/ \E id \in 1..nextId : CancelTest(id)
    \/ CancelWriteStatus
    \/ CancelFinish

SpecQueue == InitQueue /\ [][NextQueue]_vars

\* ------------------------------------------- the queue with a live worker
\* stop_processing is never called: the worker add_task started stays in
\* its loop.  Every other operation of the queue, on MaxTasks tasks.
NextLive ==
    \/ \E p \in Priorities, m \in RetryArgs : nextId < MaxTasks /\ AddTask(p, m)
    \/ \E w \in Workers : WorkerGetNext(w)
    \/ \E w \in Workers : WorkerStart(w)
    \/ \E w \in Workers : WorkerSucceed(w)
    \/ \E w \in Workers, raised \in BOOLEAN : WorkerFail(w, raised)
    \/ \E w \in Workers : WorkerFinally(w)
    \/ \E tm \in timers : RetryTask(tm)
    \/ \E id \in 1..nextId : CancelTest(id)
    \/ CancelWriteStatus
    \/ CancelFinish
    \/ \E h \in HoursArgs : ClearCompletedTasks(h)
    \/ Tick

\* The worker thread is scheduled: each step of _process_queue and of
\* _process_task that can be taken is taken.
WorkerRuns(w) ==
    /\ WF_vars(WorkerGetNext(w))
    /\ WF_vars(WorkerStart(w))
    /\ WF_vars(WorkerFinally(w))

\* _execute_scraping returns a product, returns None or raises.
ScraperReturns(w) ==
    WF_vars(WorkerSucceed(w) \/ \E raised \in BOOLEAN : WorkerFail(w, raised))

\* The threading.Timer started for a task fires.
TimersFire(id) == WF_vars(\E tm \in timers : tm.id = id /\ RetryTask(tm))

\* A thread inside the critical section of cancel_task leaves it.
CancelReturns == WF_vars(CancelWriteStatus) /\ WF_vars(CancelFinish)

Fairness ==
    /\ \A w \in {1} : WorkerRuns(w) /\ ScraperReturns(w)
    /\ \A id \in 1..MaxTasks : TimersFire(id)
    /\ CancelReturns

SpecLive == InitQueue /\ [][NextLive]_vars /\ Fairness

\* ------------------------------------------------ the backoff, one task
\* One task with max_retries = BackoffRetries, so that its retry_count
\* passes 3, 6 and 7 while timers are started.
NextBackoff ==
    \/ nextId < 1 /\ AddTask(0, BackoffRetries)
    \/ \E w \in Workers : WorkerGetNext(w)
    \/ \E w \in Workers : WorkerStart(w)
    \/ \E w \in Workers : WorkerSucceed(w)
    \/ \E w \in Workers, raised \in BOOLEAN : WorkerFail(w, raised)
    \/ \E w \in Workers : WorkerFinally(w)
    \/ \E tm \in timers : RetryTask(tm)
    \/ \E id \in 1..nextId : CancelTest(id)
    \/ CancelWriteStatus
    \/ CancelFinish

SpecBackoff == InitQueue /\ [][NextBackoff]_vars

\* ------------------------------------------- the handlers, two tasks
\* Handlers that raise are registered at any time, for any of the events,
\* around two tasks (each with one retry) and one worker.
NextHandlers ==
    \/ \E event \in Events : RegisterCallback(event)
    \/ nextId < HandlerTasks /\ AddTask(0, QueueRetries)
    \/ \E w \in Workers : WorkerGetNext(w)
    \/ \E w \in Workers : WorkerStart(w)
    \/ \E w \in Workers : WorkerSucceed(w)
    \/ \E w \in Workers, raised \in BOOLEAN : WorkerFail(w, raised)
    \/ \E w \in Workers : WorkerFinally(w)
    \/ \E tm \in timers : RetryTask(tm)

SpecHandlers == InitQueue /\ [][NextHandlers]_vars

\* ========================================================= the proxy pool
\* ProxyManager (app/anti_bot.py) and the threads that call it.  The class
\* has no lock: every line that reads or writes failed_proxies is a step of
\* its own, and another thread can run between two of them.
\*
\* The endpoints the configuration can name (PROXY_*, PROXY2_*, ...); an
\* endpoint is the proxy dict built from one of them.  Pools hold pairwise
\* different endpoints.
Endpoints == <<"proxy1", "proxy2", "proxy3", "proxy4">>
Unconfigured == "proxy0"         \* a proxy dict that is in no pool
Pools == {SubSeq(Endpoints, 1, n) : n \in 0..MaxProxies}
Threads == DOMAIN thread

\* Python indices: proxies[i] for i in range(len(proxies)).
Indexes == 0..(Len(proxies) - 1)
At(i) == proxies[i + 1]
Configured(proxy) == \E i \in Indexes : At(i) = proxy

\* self.proxies.index(proxy): the first index that holds the proxy.
IndexOf(proxy) ==
    CHOOSE i \in Indexes :
        At(i) = proxy /\ \A j \in Indexes : At(j) = proxy => i <= j

\* A list of the available proxies that forgets the failed set.
AvailableAll == proxies

\* [p for i, p in enumerate(self.proxies) if i not in self.failed_proxies]
RECURSIVE AvailableFrom(_)
AvailableFrom(i) ==
    IF i >= Len(proxies) THEN <<>>
    ELSE (IF i \notin failed_proxies THEN <<At(i)>> ELSE <<>>)
         \o AvailableFrom(i + 1)
AvailableProxies == AvailableFrom(0)

Range(q) == {q[i] : i \in 1..Len(q)}

\* get_next_proxy returns proxy to thread t: to the caller of
\* get_next_proxy, or into make_request, which goes on to session.get.
Returned(t, proxy) ==
    IF thread[t].op = "execute"
    THEN [thread[t] EXCEPT !.pc = "request", !.proxy = proxy,
                           !.available = <<>>]
    ELSE [Idle EXCEPT !.op = "get", !.proxy = proxy]

\* get_next_proxy, lines 39-41, entered by the thread whose record is rec:
\* None at once without proxies, else the list of the proxies that are not
\* failed.
Examine(rec) ==
    IF proxies = <<>>
    THEN IF rec.op = "execute"
         THEN [rec EXCEPT !.pc = "request", !.proxy = NoProxy]
         ELSE [Idle EXCEPT !.op = "get", !.proxy = NoProxy]
    ELSE [rec EXCEPT !.pc = "examined", !.available = AvailableProxies]

\* A caller's get_next_proxy().
GetNextProxy(t) ==
    /\ thread[t].pc = "idle"
    /\ thread' = [thread EXCEPT ![t] = Examine([Idle EXCEPT !.op = "get"])]
    /\ UNCHANGED <<proxies, failed_proxies, current_proxy_index>>
    /\ UNCHANGED <<queueVars, handlerVars, cacheVars, keyVars>>

\* The list that stands for available_proxies after the clear (line 44).
RecoveredNone == <<>>
Recovered == proxies

\* Lines 42-44: no proxy is available; the failed set is cleared and every
\* proxy is available again.
GetClear(t) ==
    /\ thread[t].pc = "examined"
    /\ thread[t].available = <<>>
    /\ failed_proxies' = {}
    /\ thread' = [thread EXCEPT ![t].pc = "cleared", ![t].available = Recovered]
    /\ UNCHANGED <<proxies, current_proxy_index>>
    /\ UNCHANGED <<queueVars, handlerVars, cacheVars, keyVars>>

\* Lines 45-49: random.choice among the available proxies, whose index is
\* remembered; None without any.
GetChoose(t) ==
    /\ \/ thread[t].pc = "examined" /\ thread[t].available # <<>>
       \/ thread[t].pc = "cleared"
    /\ IF thread[t].available # <<>>
       THEN \E proxy \in Range(thread[t].available) :
                /\ current_proxy_index' = IndexOf(proxy)
                /\ thread' = [thread EXCEPT ![t] = Returned(t, proxy)]
       ELSE /\ thread' = [thread EXCEPT ![t] = Returned(t, NoProxy)]
            /\ UNCHANGED current_proxy_index
    /\ UNCHANGED <<proxies, failed_proxies>>
    /\ UNCHANGED <<queueVars, handlerVars, cacheVars, keyVars>>

\* The index mark_proxy_failed adds for every proxy, configured or not.
MarkedAlways(proxy) == {0}

\* mark_proxy_failed(proxy): the index of the proxy, or nothing when
\* index() raises ValueError.
Marked(proxy) == IF Configured(proxy) THEN {IndexOf(proxy)} ELSE {}

\* A caller's mark_proxy_failed(proxy).
MarkProxyFailed(proxy) ==
    /\ failed_proxies' = failed_proxies \cup Marked(proxy)
    /\ UNCHANGED <<proxies, current_proxy_index, thread>>
    /\ UNCHANGED <<queueVars, handlerVars, cacheVars, keyVars>>

\* ================================================== the request executor
\* AntiBotManager.make_request.  What session.get can end with: a response
\* (status code; whether the body holds one of the blocked_indicators), a
\* ProxyError, or another RequestException (the timeout, the connection
\* error, the RetryError of the mounted Retry adapter).
MaxAttempts == 3
Statuses == {200, 403, 429, 503}
Responses == [kind : {"response"}, status : Statuses, text : BOOLEAN]
Raised(kind) == [kind |-> kind, status |-> 0, text |-> FALSE]
ProxyError == Raised("ProxyError")
RequestException == Raised("RequestException")
Outcomes == Responses \cup {ProxyError, RequestException}

\* _is_blocked(response)
IsBlocked(response) == response.status \in {403, 429, 503} \/ response.text

\* A loop that never reaches its last attempt.
MoreAttemptsAlways(attempt) == TRUE

\* attempt < max_attempts - 1
MoreAttempts(attempt) == attempt < MaxAttempts - 1

\* make_request(url) is called: the first pass of the loop begins.
MakeRequest(t) ==
    /\ thread[t].pc = "idle"
    /\ thread' = [thread EXCEPT ![t] = [Idle EXCEPT !.pc = "attempt",
                                                    !.op = "execute"]]
    /\ UNCHANGED <<proxies, failed_proxies, current_proxy_index>>
    /\ UNCHANGED <<queueVars, handlerVars, cacheVars, keyVars>>

\* get_request_config(): new random headers, then get_next_proxy(), which
\* runs up to its look at the failed set.
GetRequestConfig(t) ==
    /\ thread[t].pc = "attempt"
    /\ thread' = [thread EXCEPT
                     ![t] = Examine([thread[t] EXCEPT !.headers = @ + 1])]
    /\ UNCHANGED <<proxies, failed_proxies, current_proxy_index>>
    /\ UNCHANGED <<queueVars, handlerVars, cacheVars, keyVars>>

\* A make_request that reports no proxy.
MarkedByNone(t) == {}

\* A make_request that reports the first proxy, whichever it used.
MarkedByFirst(t) == IF proxies # <<>> THEN {0} ELSE {}

\* The proxy that make_request reports as failed: `if proxy:`.
MarkedBy(t) ==
    IF thread[t].proxy # NoProxy THEN Marked(thread[t].proxy) ELSE {}

\* The thread after an attempt that ended with the outcome and is followed
\* by another one.
NextAttempt(t, outcome) ==
    [thread[t] EXCEPT !.pc = "attempt", !.attempt = @ + 1, !.gets = @ + 1,
                      !.response = outcome]

\* make_request is over: it returned the response or raised.
Finished(t, result, response) ==
    [thread[t] EXCEPT !.pc = "done", !.gets = @ + 1, !.result = result,
                      !.response = response]

\* session.get ends with the outcome (lines 107-128): a blocked response
\* marks the proxy and the loop continues, but on the last pass the
\* response is returned; any other response is returned; a ProxyError
\* marks the proxy; after an exception the loop goes on, and after the
\* last pass line 130 raises.
Respond(t, outcome) ==
    /\ thread[t].pc = "request"
    /\ IF outcome.kind = "response"
       THEN IF IsBlocked(outcome)
            THEN /\ failed_proxies' = failed_proxies \cup MarkedBy(t)
                 /\ thread' = [thread EXCEPT ![t] =
                        IF MoreAttempts(thread[t].attempt)
                        THEN NextAttempt(t, outcome)
                        ELSE Finished(t, "returned", outcome)]
            ELSE /\ thread' = [thread EXCEPT ![t] =
                                   Finished(t, "returned", outcome)]
                 /\ UNCHANGED failed_proxies
       ELSE /\ failed_proxies' =
                   IF outcome = ProxyError
                   THEN failed_proxies \cup MarkedBy(t)
                   ELSE failed_proxies
            /\ thread' = [thread EXCEPT ![t] =
                   IF MoreAttempts(thread[t].attempt)
                   THEN NextAttempt(t, outcome)
                   ELSE Finished(t, "raised", outcome)]
    /\ UNCHANGED <<proxies, current_proxy_index>>
    /\ UNCHANGED <<queueVars, handlerVars, cacheVars, keyVars>>

\* The caller of make_request has its response or its exception.
MakeRequestReturn(t) ==
    /\ thread[t].pc = "done"
    /\ thread' = [thread EXCEPT ![t] = Idle]
    /\ UNCHANGED <<proxies, failed_proxies, current_proxy_index>>
    /\ UNCHANGED <<queueVars, handlerVars, cacheVars, keyVars>>

\* One thread that calls get_next_proxy, mark_proxy_failed and make_request
\* one after the other, over every pool.
InitProxy ==
    /\ tasks = <<>>
    /\ queue = <<>>
    /\ processing = {}
    /\ running = FALSE
    /\ stats = [total_tasks |-> 0, completed_tasks |-> 0,
                failed_tasks |-> 0, retry_tasks |-> 0]
    /\ worker = [w \in 1..MaxWorkers |-> [pc |-> "none", task |-> 0]]
    /\ timers = {}
    /\ cancel = [pc |-> "idle", id |-> 0]
    /\ nextId = 0
    /\ now = 1
    /\ calls = <<>>
    /\ callbacks = {}
    /\ handler_errors = 0
    /\ CacheInit(GlobalMaxSize)
    /\ \E pool \in Pools : ProxyInit(pool)
    /\ generated = <<>>
    /\ cached_call = NoCall

MarkArgs == Range(Endpoints) \cup {Unconfigured}

NextSequential ==
    \/ GetNextProxy(1)
    \/ GetClear(1)
    \/ GetChoose(1)
    \/ \E proxy \in MarkArgs : thread[1].pc = "idle" /\ MarkProxyFailed(proxy)
    \/ MakeRequest(1)
    \/ GetRequestConfig(1)
    \/ \E outcome \in Outcomes : Respond(1, outcome)
    \/ MakeRequestReturn(1)

SpecSequential == InitProxy /\ [][NextSequential]_vars

\* The threads call them at any time, each at its own pace.
NextProxy ==
    \/ \E t \in Threads : GetNextProxy(t)
    \/ \E t \in Threads : GetClear(t)
    \/ \E t \in Threads : GetChoose(t)
    \/ \E proxy \in MarkArgs : MarkProxyFailed(proxy)
    \/ \E t \in Threads : MakeRequest(t)
    \/ \E t \in Threads : GetRequestConfig(t)
    \/ \E t \in Threads, outcome \in Outcomes : Respond(t, outcome)
    \/ \E t \in Threads : MakeRequestReturn(t)

SpecProxy == InitProxy /\ [][NextProxy]_vars

\* ========================================================= the cache key
\* CacheManager._generate_key(*args, **kwargs), as CachedScraper calls it:
\* _generate_key(func.__name__, *args, **kwargs).  A Python value is its
\* type and its content: the str "u", the int 1 and the str "1", an object
\* whose str() is "u", and the one-element tuple and list that hold "u".
MaxArgs == 1             \* positional arguments of a call, besides the name
Values ==
    {[type |-> "str", v |-> "u"], [type |-> "str", v |-> "1"],
     [type |-> "int", v |-> "1"], [type |-> "object", v |-> "u"],
     [type |-> "tuple", v |-> "u"], [type |-> "list", v |-> "u"]}
KwValues == {[type |-> "str", v |-> "u"], [type |-> "int", v |-> "1"]}
FuncNames == {"scrape_product", "scrape_search"}
KwNames == <<"affiliate_link", "url">>        \* in the order of sorted()

\* The keyword arguments of a call, in the order the caller wrote them.
Kwargs ==
    {kw \in UNION {[1..n -> [k : Range(KwNames), v : KwValues]] : n \in 0..2} :
        \A i, j \in DOMAIN kw : kw[i].k = kw[j].k => i = j}
Calls ==
    [name : FuncNames,
     args : UNION {[1..n -> Values] : n \in 0..MaxArgs},
     kwargs : Kwargs]

\* json.dumps of one value: str and int have their own JSON forms, tuple
\* and list are both a JSON array, anything else goes through default=str.
Json(x) ==
    CASE x.type = "str" -> [json |-> "string", v |-> x.v]
      [] x.type = "int" -> [json |-> "number", v |-> x.v]
      [] x.type \in {"tuple", "list"} -> [json |-> "array", v |-> x.v]
      [] OTHER -> [json |-> "string", v |-> x.v]

\* sorted(kwargs.items()): the items by name.
RECURSIVE SortedFrom(_, _)
SortedFrom(kw, n) ==
    IF n > Len(KwNames) THEN <<>>
    ELSE SelectSeq(kw, LAMBDA item : item.k = KwNames[n])
         \o SortedFrom(kw, n + 1)
Sorted(kw) == SortedFrom(kw, 1)

\* key_str: json.dumps({'args': args, 'kwargs': sorted(kwargs.items())},
\* sort_keys=True, default=str) for the call name(*args, **kwargs).
KeyStr(call) ==
    [args |-> <<Json([type |-> "str", v |-> call.name])>>
                 \o [i \in DOMAIN call.args |-> Json(call.args[i])],
     kwargs |-> [i \in DOMAIN call.kwargs |->
                    [k |-> Sorted(call.kwargs)[i].k,
                     v |-> Json(Sorted(call.kwargs)[i].v)]]]

\* hashlib.md5(key_str.encode()).hexdigest(): a function of key_str.
GenerateKey(call) == [md5 |-> KeyStr(call)]

\* A wrapper call derives its key; the last two derivations are kept.
Wrapper(call) ==
    /\ generated' = SubSeq(<<[call |-> call, key_str |-> KeyStr(call),
                             key |-> GenerateKey(call)]>> \o generated,
                           1, Min(2, Len(generated) + 1))
    /\ UNCHANGED <<queueVars, handlerVars, cacheVars, proxyVars,
                   cached_call>>

InitKey ==
    /\ tasks = <<>>
    /\ queue = <<>>
    /\ processing = {}
    /\ running = FALSE
    /\ stats = [total_tasks |-> 0, completed_tasks |-> 0,
                failed_tasks |-> 0, retry_tasks |-> 0]
    /\ worker = [w \in 1..MaxWorkers |-> [pc |-> "none", task |-> 0]]
    /\ timers = {}
    /\ cancel = [pc |-> "idle", id |-> 0]
    /\ nextId = 0
    /\ now = 1
    /\ calls = <<>>
    /\ callbacks = {}
    /\ handler_errors = 0
    /\ CacheInit(GlobalMaxSize)
    /\ ProxyInit(<<>>)
    /\ generated = <<>>
    /\ cached_call = NoCall

NextKey == \E call \in Calls : Wrapper(call)

SpecKey == InitKey /\ [][NextKey]_vars

\* ====================================================== the cached scraper
\* CachedScraper.__call__: the wrapper around a scraping function, used by
\* one caller at a time.  The key of a call is what _generate_key derives
\* for it; the wrapped function returns a result, None or raises.
MaxCalls == 3            \* wrapper calls in one run
WrapperTtls == {0, WrapperTtl}
FuncRaised == "raised"
FuncOutcomes == Data \cup {NoData, FuncRaised}

\* A wrapper that stores whatever the function returns.
StorableAlways(result) == result # FuncRaised

\* `if result is not None`, for a function that has returned.
Storable(result) == result \notin {NoData, FuncRaised}

\* wrapper(*args, **kwargs) up to the call of func: the key, then
\* cache_manager.get(key); a result that is not None is returned at once.
WrapperCall(key) ==
    /\ cached_call.pc = "idle"
    /\ GetLocked(key)
    /\ cached_call' =
          IF GetReturn(key) # NoData
          THEN [cached_call EXCEPT !.key = key, !.invoked = 0,
                                   !.returned = GetReturn(key)]
          ELSE [cached_call EXCEPT !.pc = "func", !.key = key,
                                   !.invoked = 0, !.returned = NoData]
    /\ UNCHANGED <<queueVars, handlerVars, max_size, proxyVars, generated>>

\* func(*args, **kwargs) ends, and the wrapper stores the result under the
\* key, if there is one, and returns it.
WrapperFunc(result) ==
    /\ cached_call.pc = "func"
    /\ cached_call' = [cached_call EXCEPT !.pc = "idle", !.invoked = @ + 1,
                                          !.returned = result]
    /\ IF Storable(result)
       THEN SetLocked(cached_call.key, result, cached_call.ttl)
       ELSE UNCHANGED <<cache, access_order, cache_stats>>
    /\ UNCHANGED <<queueVars, handlerVars, max_size, proxyVars, generated>>

InitWrapper ==
    /\ tasks = <<>>
    /\ queue = <<>>
    /\ processing = {}
    /\ running = FALSE
    /\ stats = [total_tasks |-> 0, completed_tasks |-> 0,
                failed_tasks |-> 0, retry_tasks |-> 0]
    /\ worker = [w \in 1..MaxWorkers |-> [pc |-> "none", task |-> 0]]
    /\ timers = {}
    /\ cancel = [pc |-> "idle", id |-> 0]
    /\ nextId = 0
    /\ now = 1
    /\ calls = <<>>
    /\ callbacks = {}
    /\ handler_errors = 0
    /\ CacheInit(GlobalMaxSize)
    /\ ProxyInit(<<>>)
    /\ generated = <<>>
    /\ \E ttl \in WrapperTtls : cached_call = [NoCall EXCEPT !.ttl = ttl]

NextWrapper ==
    \/ \E key \in Keys :
          cache_stats.hits + cache_stats.misses < MaxCalls /\ WrapperCall(key)
    \/ \E result \in FuncOutcomes : WrapperFunc(result)
    \/ cache_stats.expired_cleanups < MaxCount /\ CleanupWorker
    \/ Tick

SpecWrapper == InitWrapper /\ [][NextWrapper]_vars

\* ================================================================ claims
Index(q, id) == CHOOSE i \in 1..Len(q) : q[i] = id

In(q, id) == \E i \in 1..Len(q) : q[i] = id

\* The worker w dequeues in this step.
Dequeues(w) == worker[w].pc = "loop" /\ worker'[w].pc = "start"

\* ---- C1
QueueSorted ==
    \A i, j \in 1..Len(queue) :
        i < j => tasks[queue[i]].priority >= tasks[queue[j]].priority

DequeueTakesMax ==
    \A w \in Workers :
        Dequeues(w) =>
            /\ In(queue, worker'[w].task)
            /\ \A i \in 1..Len(queue) :
                   tasks[worker'[w].task].priority >= tasks[queue[i]].priority

\* C1: in every reachable state the queue is sorted by non-increasing task
\* priority, and every dequeue removes a queued task whose priority is the
\* maximum of the priorities queued at that moment.
C1_PriorityOrder == []QueueSorted /\ [][DequeueTakesMax]_vars

\* A worker holds a task it dequeued ahead of a task that was added before
\* it and has a lower priority.
C1_Witness ==
    \E w \in Workers :
        /\ worker[w].pc = "start"
        /\ queue # <<>>
        /\ queue[1] < worker[w].task
        /\ tasks[worker[w].task].priority > tasks[queue[1]].priority

\* ---- C2
\* q without its k-th element.
Drop(q, k) == SubSeq(q, 1, k - 1) \o SubSeq(q, k + 1, Len(q))

\* A task that enters the queue in this step stands behind every task of
\* its own or a higher priority and immediately before the first task of a
\* strictly lower priority (at the end if there is none); the others keep
\* their places.
InsertedBeforeFirstLower ==
    \A id \in DOMAIN tasks' :
        (~In(queue, id) /\ In(queue', id)) =>
            LET k == Index(queue', id)
            IN /\ Drop(queue', k) = queue
               /\ \A i \in 1..(k - 1) :
                      tasks'[queue'[i]].priority >= tasks'[id].priority
               /\ k < Len(queue') =>
                      tasks'[queue'[k + 1]].priority < tasks'[id].priority

\* Two tasks that stay in the queue keep their order.
OrderKept ==
    \A a, b \in DOMAIN tasks :
        (/\ In(queue, a) /\ In(queue, b) /\ In(queue', a) /\ In(queue', b)
         /\ Index(queue, a) < Index(queue, b))
            => Index(queue', a) < Index(queue', b)

\* A dequeue takes the task no queued task stands before.
DequeueTakesFirst ==
    \A w \in Workers :
        Dequeues(w) => (queue # <<>> /\ worker'[w].task = queue[1]
                        /\ queue' = Tail(queue))

\* C2: a task is inserted immediately before the first queued task of
\* strictly lower priority, or at the end when there is none; so of two
\* queued tasks of equal priority the one that entered the queue earlier
\* stands first, keeps standing first, and is dequeued first.
C2_InsertFifo ==
    [][InsertedBeforeFirstLower /\ OrderKept /\ DequeueTakesFirst]_vars

\* Three queued tasks: two of equal priority in the order they were added,
\* both ahead of a task of lower priority that was added before the second.
C2_Witness ==
    /\ Len(queue) = 3
    /\ tasks[queue[1]].priority = tasks[queue[2]].priority
    /\ tasks[queue[2]].priority > tasks[queue[3]].priority
    /\ queue[1] < queue[3]
    /\ queue[3] < queue[2]

\* ---- C3
\* C3: retry_count never exceeds max_retries, for every max_retries >= 0
\* (0 included), and a task whose retry_count has reached max_retries is
\* FAILED.  (_handle_task_failure is one step of the model, so every state
\* is outside it.)
C3_RetryBound ==
    \A id \in DOMAIN tasks :
        /\ tasks[id].retry_count <= tasks[id].max_retries
        /\ (tasks[id].retry_count >= 1
            /\ tasks[id].retry_count = tasks[id].max_retries)
               => tasks[id].status = FAILED

\* ---- C4
\* The only task ever added has failed in every execution and has used up
\* its attempts (completed_at is set by the definitive failure only).
OnlyTaskExhausted ==
    /\ nextId = 1
    /\ 1 \in DOMAIN tasks
    /\ stats.completed_tasks = 0
    /\ tasks[1].max_retries >= 1
    /\ tasks[1].status = FAILED
    /\ tasks[1].completed_at # 0

\* C4: a task added with max_retries = n >= 1 whose job always fails has
\* entered RETRYING exactly n times (stats.retry_tasks counts the entries)
\* when it becomes FAILED, and its retry_count is n.
C4_RetryCycles ==
    OnlyTaskExhausted =>
        /\ stats.retry_tasks = tasks[1].max_retries
        /\ tasks[1].retry_count = tasks[1].max_retries

\* ---- C5
\* min(60, 2^n) written out.
BackoffSchedule(n) ==
    CASE n = 1 -> 2
      [] n = 2 -> 4
      [] n = 3 -> 8
      [] n = 4 -> 16
      [] n = 5 -> 32
      [] n >= 6 -> 60
      [] OTHER -> 0 - 1

\* Every timer that is waiting was started with the delay of the schedule
\* for its task's retry_count (the count after the increment), at most 60.
TimerDelays ==
    \A tm \in timers :
        /\ tm.id \in DOMAIN tasks
        /\ tm.delay = BackoffSchedule(tasks[tm.id].retry_count)
        /\ tm.delay <= 60

\* A timer started in this step belongs to a failure that has raised the
\* task's retry_count by one, and it waits at least as long as the timer of
\* the task's failure before (which, by TimerDelays, had the delay of the
\* schedule for the count before this step); no retry_count ever shrinks.
DelaysGrow ==
    /\ \A tm \in timers' \ timers :
           LET before == tasks[tm.id].retry_count
           IN /\ tasks'[tm.id].retry_count = before + 1
              /\ before >= 1 => tm.delay >= BackoffSchedule(before)
    /\ \A id \in DOMAIN tasks \cap DOMAIN tasks' :
           tasks[id].retry_count <= tasks'[id].retry_count

\* C5: whenever a failure schedules a retry the delay is min(60, 2^retry_count)
\* seconds for the retry_count after the increment: never above 60,
\* non-decreasing over a task's failures, 8 at 3 and 60 from 6 on.
C5_BackoffSchedule == []TimerDelays /\ [][DelaysGrow]_vars

\* A timer of 60 seconds waits for a task that has failed 7 times.
C5_Witness ==
    \E tm \in timers :
        /\ tm.delay = 60
        /\ tasks[tm.id].retry_count = 7

\* ---- C6
\* The edges of the state machine, with the two cancellation edges.
StatusEdges ==
    {<<PENDING, PROCESSING>>, <<PROCESSING, COMPLETED>>,
     <<PROCESSING, RETRYING>>, <<PROCESSING, FAILED>>,
     <<RETRYING, PENDING>>, <<PENDING, FAILED>>, <<RETRYING, FAILED>>}

\* cancel_task is inside its critical section on the task.
CancelInFlight(id) == cancel.pc # "idle" /\ cancel.id = id

\* (Steps taken while cancel_task is inside its critical section on the
\* task are left out; what remains of the claim is already violated.)
\* C6: every change of a task's status is one of the edges PENDING ->
\* PROCESSING, PROCESSING -> COMPLETED, PROCESSING -> RETRYING, PROCESSING ->
\* FAILED, RETRYING -> PENDING, PENDING -> FAILED, RETRYING -> FAILED.
C6_StatusEdges ==
    [][\A id \in DOMAIN tasks \cap DOMAIN tasks' :
           (/\ ~CancelInFlight(id)
            /\ tasks[id].status # tasks'[id].status) =>
               <<tasks[id].status, tasks'[id].status>> \in StatusEdges]_vars

\* ---- C7
\* (Steps taken while cancel_task is inside its critical section on the
\* task are left out: a cancellation counts from the return of cancel_task.)
\* C7: once a task is COMPLETED or FAILED its status, retry_count, started_at, result and
\* error_message never change again; it can only be removed.
C7_TerminalImmutable ==
    [][\A id \in DOMAIN tasks \cap DOMAIN tasks' :
           (tasks[id].status \in {COMPLETED, FAILED} /\ ~CancelInFlight(id)) =>
               /\ tasks'[id].status = tasks[id].status
               /\ tasks'[id].retry_count = tasks[id].retry_count
               /\ tasks'[id].started_at = tasks[id].started_at
               /\ tasks'[id].result = tasks[id].result
               /\ tasks'[id].error_message = tasks[id].error_message]_vars

\* ---- C8
\* cancel_task returns True in this step.
CancelReturnsTrue == cancel.pc = "written" /\ cancel'.pc = "idle"

\* cancel_task, having found the task cancellable, is at its writes.
CancelPassed == cancel.pc \in {"passed", "written"}

\* C8: cancel_task goes on to return True only for a task that exists and
\* is PENDING or RETRYING at the call (any other call returns False and is
\* no step at all: CancelTest leaves every variable as it was); when it
\* returns True the task is FAILED, carries the cancellation message and is
\* not in the queue.
C8_CancelContract ==
    [][/\ (cancel.pc = "idle" /\ cancel'.pc = "passed") =>
              (/\ cancel'.id \in DOMAIN tasks
               /\ tasks[cancel'.id].status \in {PENDING, RETRYING})
       /\ CancelReturnsTrue =>
              (/\ tasks'[cancel.id].status = FAILED
               /\ tasks'[cancel.id].error_message = Cancelled
               /\ ~In(queue', cancel.id))]_vars

\* ---- C9
\* A worker has dequeued the task and is not through with executing it.
Dispatched(id) ==
    \E w \in Workers :
        worker[w].task = id /\ worker[w].pc \in {"start", "scraping"}

\* C9: cancel_task never succeeds for a task the worker has already
\* dequeued for execution, the window before status = PROCESSING included.
C9_CancelOnlyPreDispatch == CancelPassed => ~Dispatched(cancel.id)

\* ---- C10
\* C10: when the timer of a task that was cancelled while RETRYING fires,
\* the task stays FAILED and out of the queue.
C10_CancelledStaysFailed ==
    [][\A tm \in timers \ timers' :
           (tm.id \in DOMAIN tasks /\ tasks[tm.id].status = FAILED) =>
               (/\ tasks'[tm.id].status = FAILED
                /\ ~In(queue', tm.id))]_vars

\* ---- C11
\* The threads that are inside _process_queue.
LiveWorkers == {w \in Workers : worker[w].pc # "none"}

\* The tasks a worker has dequeued and has not yet brought to COMPLETED,
\* RETRYING or FAILED.
InFlight ==
    {id \in 1..nextId :
        \E w \in Workers :
            worker[w].task = id /\ worker[w].pc \in {"start", "scraping"}}

\* C11: at most one thread runs the dequeue loop, and at most one task is
\* in flight: in the processing set, or between its dequeue and its
\* transition to COMPLETED, RETRYING or FAILED.
C11_SingleWorker ==
    /\ Cardinality(LiveWorkers) <= 1
    /\ Cardinality(processing) <= 1
    /\ Cardinality(InFlight) <= 1

\* ---- C12
\* How often id occurs in q.
Occurrences(q, id) == Cardinality({i \in 1..Len(q) : q[i] = id})

\* C12: when add_task(priority, max_retries) returns, its id is one no task
\* has had before; the task exists with retry_count 0, the given priority
\* and max_retries and status PENDING; it stands in the queue exactly once;
\* and running is True with a worker thread in the loop, also when the
\* worker had been stopped before.
C12_AddTaskPost ==
    [][\A p \in Priorities, m \in RetryArgs :
           AddTask(p, m) =>
               LET id == nextId'
               IN /\ id \notin 1..nextId
                  /\ id \notin DOMAIN tasks
                  /\ id \in DOMAIN tasks'
                  /\ tasks'[id].status = PENDING
                  /\ tasks'[id].retry_count = 0
                  /\ tasks'[id].priority = p
                  /\ tasks'[id].max_retries = m
                  /\ Occurrences(queue, id) = 0
                  /\ Occurrences(queue', id) = 1
                  /\ running'
                  /\ \E w \in Workers : worker'[w].pc # "none"]_vars

\* The second task has been added after a stop_processing that left the
\* first worker thread inside the first task: it is queued and untouched,
\* and a second worker thread is in the loop.
C12_Witness ==
    /\ nextId = 2
    /\ queue = <<2>>
    /\ tasks[2].status = PENDING
    /\ calls[2] = 0
    /\ running
    /\ worker[1] = [pc |-> "scraping", task |-> 1]
    /\ worker[2] = [pc |-> "loop", task |-> 0]

\* ---- C13
\* The tasks that are COMPLETED or FAILED with a completed_at (0 is None)
\* earlier than the cutoff of clear_completed_tasks(h).
TerminalBefore(h) ==
    {id \in DOMAIN tasks :
        /\ tasks[id].status \in {COMPLETED, FAILED}
        /\ tasks[id].completed_at \in 1..(now - h - 1)}

\* C13: clear_completed_tasks(h) removes exactly the tasks that are
\* COMPLETED or FAILED with completed_at earlier than the cutoff, returns
\* their number, and leaves every other task, the queue, the processing set
\* and the statistics as they were; no PENDING, PROCESSING or RETRYING task
\* is removed.
C13_ClearFrame ==
    [][\A h \in HoursArgs :
           ClearCompletedTasks(h) =>
               /\ DOMAIN tasks' = DOMAIN tasks \ TerminalBefore(h)
               /\ ClearReturn(h) = Cardinality(DOMAIN tasks \ DOMAIN tasks')
               /\ \A id \in DOMAIN tasks' : tasks'[id] = tasks[id]
               /\ \A id \in DOMAIN tasks \ DOMAIN tasks' :
                      tasks[id].status \notin {PENDING, PROCESSING, RETRYING}
               /\ queue' = queue
               /\ processing' = processing
               /\ stats' = stats]_vars

\* A task has been removed (nothing but clear_completed_tasks removes one)
\* and the one that is left is not through: it was passed over.
C13_Witness ==
    /\ nextId = 2
    /\ Cardinality(DOMAIN tasks) = 1
    /\ \A id \in DOMAIN tasks :
           tasks[id].status \in {PENDING, PROCESSING, RETRYING}

\* ---- C14
\* What the worker w's step from "start" does to a task when no handler
\* interferes: PROCESSING, and the scraper is called.
StartOutcome(w) ==
    LET id == worker[w].task
    IN /\ worker'[w].pc = "scraping"
       /\ tasks' = [tasks EXCEPT ![id].status = PROCESSING,
                                 ![id].started_at = 1]
       /\ UNCHANGED <<queue, timers, stats>>

\* ... and its step from "scraping" when the scraper returned a product:
SuccessOutcome(w) ==
    LET id == worker[w].task
    IN /\ tasks' = [tasks EXCEPT ![id].status = COMPLETED,
                                 ![id].completed_at = now,
                                 ![id].result = TRUE]
       /\ stats' = [stats EXCEPT !.completed_tasks = @ + 1]
       /\ UNCHANGED <<queue, timers>>

\* ... and when it returned nothing or raised: one failure is counted, and
\* one timer is started if a retry is left.
FailureOutcome(w) ==
    LET id == worker[w].task
        retry == tasks[id].retry_count + 1 < tasks[id].max_retries
    IN /\ tasks'[id].retry_count = tasks[id].retry_count + 1
       /\ tasks'[id].status = IF retry THEN RETRYING ELSE FAILED
       /\ tasks'[id].result = tasks[id].result
       /\ \A other \in DOMAIN tasks \ {id} : tasks'[other] = tasks[other]
       /\ Cardinality(timers') = Cardinality(timers) + IF retry THEN 1 ELSE 0
       /\ \A tm \in timers' \ timers : tm.id = id
       /\ stats' = IF retry THEN [stats EXCEPT !.retry_tasks = @ + 1]
                            ELSE [stats EXCEPT !.failed_tasks = @ + 1]
       /\ queue' = queue

\* C14: a handler (task_added, task_started, task_completed, task_retrying,
\* task_failed) that raises does not end the worker loop and does not change
\* the outcome: the step in which it raises leaves the task's status, its
\* retry_count and the queue as the same step without the handler does, and
\* the worker stays in its loop for the next task.
C14_HandlerRaises ==
    [][/\ \A w \in Workers :
              /\ worker[w].pc # "none" => worker'[w].pc # "none"
              /\ (/\ "task_started" \in callbacks
                  /\ worker[w].pc = "start"
                  /\ worker'[w].pc # "start"
                  /\ worker[w].task \in DOMAIN tasks) => StartOutcome(w)
              /\ (/\ callbacks \cap {"task_completed", "task_retrying",
                                      "task_failed"} # {}
                  /\ worker[w].pc = "scraping"
                  /\ worker'[w].pc # "scraping") =>
                     /\ worker'[w].pc = "finally"
                     /\ SuccessOutcome(w) \/ FailureOutcome(w)
       /\ ("task_added" \in callbacks /\ nextId' # nextId) =>
              /\ tasks'[nextId'].status = PENDING
              /\ tasks'[nextId'].retry_count = 0
              /\ Occurrences(queue', nextId') = 1
              /\ running'
              /\ \E w \in Workers : worker'[w].pc # "none"]_vars

\* The handlers of the first task have raised five times (added, started,
\* retrying, started, completed or failed), the task is through, and the
\* worker has dequeued the second task.
C14_Witness ==
    /\ handler_errors >= 5
    /\ nextId = 2
    /\ tasks[1].status \in {COMPLETED, FAILED}
    /\ tasks[1].retry_count >= 1
    /\ worker[1] = [pc |-> "start", task |-> 2]

\* ---- C15
\* The worker w ends an execution in which the scraper raised or returned
\* nothing (what counts a failure, and nothing else, raises retry_count).
ScraperFailed(w) ==
    /\ worker[w].pc = "scraping"
    /\ worker'[w].pc # "scraping"
    /\ tasks'[worker[w].task].retry_count # tasks[worker[w].task].retry_count

\* C15: when the scraper raises or returns nothing, the worker thread lives
\* on, the task becomes RETRYING or FAILED and carries an error_message,
\* and the worker's next step takes it out of the processing set.
C15_ScraperFailure ==
    [][\A w \in Workers :
           /\ ScraperFailed(w) =>
                  /\ worker'[w].pc = "finally"
                  /\ tasks'[worker[w].task].status \in {RETRYING, FAILED}
                  /\ tasks'[worker[w].task].error_message # NoError
           /\ (worker[w].pc = "finally" /\ worker'[w].pc # "finally") =>
                  /\ worker'[w].pc = "loop"
                  /\ worker[w].task \notin processing']_vars

\* ---- C16
\* The task has failed for good by using up its retries (the definitive
\* failure sets completed_at, a cancellation does not).
Exhausted(id) ==
    /\ id \in DOMAIN tasks
    /\ tasks[id].status = FAILED
    /\ tasks[id].completed_at # 0

\* The scraper has been called at most max_retries + 1 times for every
\* task, and a task that has used up its retries has no timer waiting, is
\* not queued and is not held by a worker that has yet to call the scraper.
RetriesBounded ==
    \A id \in DOMAIN tasks :
        /\ calls[id] <= tasks[id].max_retries + 1
        /\ Exhausted(id) =>
               /\ \A tm \in timers : tm.id # id
               /\ ~In(queue, id)
               /\ \A w \in Workers :
                      worker[w].task = id => worker[w].pc = "finally"

\* C16: a task is never retried beyond max_retries: the scraper is called
\* at most max_retries + 1 times for it, and once it is FAILED by
\* exhaustion no timer is pending for it and it is never executed again.
C16_NoRetryBeyondMax ==
    /\ []RetriesBounded
    /\ [][\A id \in DOMAIN tasks :
              Exhausted(id) => calls'[id] = calls[id]]_vars

\* A task with max_retries = 2 has failed for good after two calls of the
\* scraper, the second started by its retry timer.
C16_Witness ==
    \E id \in DOMAIN tasks :
        /\ Exhausted(id)
        /\ tasks[id].max_retries = 2
        /\ tasks[id].retry_count = 2
        /\ calls[id] = 2
        /\ stats.retry_tasks >= 1

\* ---- C17
\* The worker w is about to run the task_started handler and to call the
\* scraper, or it is inside the scraper, with the handlers of the result
\* still to run.
InScraperOrHandler(w) == worker[w].pc \in {"start", "scraping"}

\* C17: self.lock is not held while the scraper or a handler runs: whenever
\* a worker is there and no cancel_task is inside its critical section,
\* the lock is free, and add_task, cancel_task, clear_completed_tasks and
\* every retry timer that fires can take their step at once.
C17_LockNotHeld ==
    \A w \in Workers :
        (InScraperOrHandler(w) /\ cancel.pc = "idle") =>
            /\ LockFree
            /\ \A id \in 1..nextId : ENABLED CancelTest(id)
            /\ \A tm \in timers : ENABLED RetryTask(tm)
            /\ \A h \in HoursArgs : ENABLED ClearCompletedTasks(h)
            /\ (running \/ FreeSlots # {}) =>
                   \A p \in Priorities, m \in RetryArgs : ENABLED AddTask(p, m)

\* One worker is inside the scraper with the first task while the retry
\* timer of the second task waits to fire and no cancel_task is under way.
C17_Witness ==
    \E w \in Workers :
        /\ worker[w] = [pc |-> "scraping", task |-> 1]
        /\ \E tm \in timers : tm.id = 2
        /\ cancel.pc = "idle"

\* ---- C18
\* C18: every background thread is a daemon thread: the worker threads
\* that are alive, the cleanup thread of the cache, and every retry timer
\* that is waiting; none keeps the process from ending with its main thread.
C18_AllDaemon ==
    /\ \A w \in LiveWorkers : WorkerDaemon
    /\ SweeperDaemon
    /\ \A tm \in timers : tm.daemon

\* A retry timer is waiting after stop_processing has ended every worker
\* thread: the timer thread is the only one left of the queue.
C18_Witness ==
    /\ timers # {}
    /\ ~running
    /\ LiveWorkers = {}

\* ---- C19
\* C19: the cache never holds more than max_size entries, whatever
\* max_size CacheManager was constructed with.
C19_SizeBound == Cardinality(DOMAIN cache) <= max_size

\* ---- C20
\* set(k, ...) is called with a key that is not stored while the cache
\* holds max_size entries.
SetsNewKeyAtCapacity(k) ==
    /\ Cardinality(DOMAIN cache) = max_size
    /\ k \notin DOMAIN cache
    /\ \E d \in Data, ttl \in TtlArgs : Set(k, d, ttl)

\* The stored keys whose last successful get or set is the oldest: get and
\* set move the key they touch to the end of access_order, so it is the
\* key at its head.
LeastRecentlyUsed ==
    IF access_order = <<>> THEN {} ELSE {Head(access_order)}

\* C20: a set of a key that is not stored, into a cache that holds max_size
\* entries, evicts exactly one entry (evictions grows by 1), the one least
\* recently accessed by a successful get or set; the new key is stored.
C20_EvictsLru ==
    [][\A k \in Keys :
           SetsNewKeyAtCapacity(k) =>
               /\ cache_stats'.evictions = cache_stats.evictions + 1
               /\ Cardinality(DOMAIN cache \ DOMAIN cache') = 1
               /\ DOMAIN cache \ DOMAIN cache' = LeastRecentlyUsed
               /\ DOMAIN cache' \ DOMAIN cache = {k}]_vars
\* ---- C21
\* The age of an entry, as is_expired computes it.
Age(k) == now - cache[k].timestamp

\* C21: get(k) on a missing key returns None and adds 1 to misses, nothing
\* else; on an entry whose age exceeds its ttl it returns None, removes the
\* entry and adds 1 to misses and to expired_cleanups; on any other entry
\* it returns the stored data, adds 1 to hits and to the entry's
\* access_count and makes the key the last (most recent) of access_order.
C21_GetOutcome ==
    [][\A k \in Keys : Get(k) =>
          IF k \notin DOMAIN cache
          THEN /\ GetReturn(k) = NoData
               /\ cache' = cache /\ access_order' = access_order
               /\ cache_stats' = [cache_stats EXCEPT !.misses = @ + 1]
          ELSE IF Age(k) > cache[k].ttl
          THEN /\ GetReturn(k) = NoData
               /\ DOMAIN cache' = DOMAIN cache \ {k}
               /\ ~In(access_order', k)
               /\ cache_stats' =
                      [cache_stats EXCEPT !.misses = @ + 1,
                                          !.expired_cleanups = @ + 1]
          ELSE /\ GetReturn(k) = cache[k].data
               /\ cache_stats' = [cache_stats EXCEPT !.hits = @ + 1]
               /\ cache' = [cache EXCEPT ![k].access_count = @ + 1]
               /\ access_order'[Len(access_order')] = k
               /\ Without(access_order', k) = Without(access_order, k)]_vars

\* An entry that a get has hit is now older than its ttl, next to an entry
\* of age equal to its ttl, after a miss: the three cases of get.
C21_Witness ==
    /\ cache_stats.misses > 0
    /\ \E k \in DOMAIN cache :
           cache[k].access_count > 0 /\ Age(k) > cache[k].ttl
    /\ \E k \in DOMAIN cache : Age(k) = cache[k].ttl

\* ---- C22
\* Thread t enters get_next_proxy (from its caller or from make_request).
Begins(t) == GetNextProxy(t) \/ GetRequestConfig(t)

\* get_next_proxy returns to thread t in this step; thread'[t].proxy is
\* what it returns.
GetReturns(t) == GetChoose(t) \/ (proxies = <<>> /\ Begins(t))

\* C22: a get_next_proxy that begins with every endpoint of a non-empty pool
\* in the failed set finds nothing available, clears the failed set and
\* returns a configured endpoint with the failed set empty; and whatever
\* calls came before, get_next_proxy on a non-empty pool never returns None.
C22_Recovery ==
    [][\A t \in Threads :
          /\ Begins(t) /\ proxies # <<>> /\ failed_proxies = Indexes
                => thread'[t].pc = "examined" /\ thread'[t].available = <<>>
          /\ thread[t].pc = "examined" /\ thread[t].available = <<>>
                => thread'[t].pc = "cleared" /\ failed_proxies' = {}
          /\ GetReturns(t) /\ thread[t].pc = "cleared"
                => Configured(thread'[t].proxy) /\ failed_proxies' = {}
          /\ GetReturns(t) /\ proxies # <<>>
                => thread'[t].proxy # NoProxy
                   /\ Configured(thread'[t].proxy)]_vars

\* Both endpoints of a pool of two were marked, and a get_next_proxy has
\* cleared the failed set and is about to choose.
C22_Witness ==
    /\ Len(proxies) = 2
    /\ thread[1].pc = "cleared"
    /\ thread[1].available = proxies
    /\ failed_proxies = {}

\* ---- C23
\* C23: a get_next_proxy that begins with some endpoint not in the failed
\* set returns a configured endpoint whose index is not in the failed set
\* and leaves the failed set as it was; and get_next_proxy returns None
\* exactly when the pool is empty.
C23_SkipsFailed ==
    [][\A t \in Threads :
          /\ Begins(t) /\ failed_proxies # Indexes
                => /\ thread'[t].pc = "examined"
                   /\ thread'[t].available # <<>>
                   /\ failed_proxies' = failed_proxies
          /\ GetReturns(t) /\ thread[t].pc = "examined"
                => /\ Configured(thread'[t].proxy)
                   /\ \E i \in Indexes \ failed_proxies :
                          At(i) = thread'[t].proxy
                   /\ failed_proxies' = failed_proxies
          /\ GetReturns(t)
                => (thread'[t].proxy = NoProxy <=> proxies = <<>>)]_vars

\* The first endpoint of two is failed, and get_next_proxy has returned the
\* second to its caller.
C23_Witness ==
    /\ Len(proxies) = 2
    /\ failed_proxies = {0}
    /\ thread[1].pc = "idle" /\ thread[1].op = "get"
    /\ thread[1].proxy = At(1)

\* ---- C24
\* C24: mark_proxy_failed(p) adds the index of p, and nothing else, to the
\* failed set when p is configured (so a second call changes nothing), and
\* changes nothing when p is not configured; the call always completes; and
\* the failed set holds indices of configured endpoints only.
C24_MarkFailed ==
    /\ [](failed_proxies \subseteq Indexes)
    /\ [](\A p \in MarkArgs : ENABLED MarkProxyFailed(p))
    /\ [][\A p \in MarkArgs : MarkProxyFailed(p) =>
             /\ \A i \in Indexes :
                    At(i) = p => failed_proxies' = failed_proxies \cup {i}
             /\ ~Configured(p) => failed_proxies' = failed_proxies
             /\ (\E i \in failed_proxies : At(i) = p)
                    => failed_proxies' = failed_proxies]_vars

\* Only the second endpoint of two has been marked.
C24_Witness ==
    /\ Len(proxies) = 2
    /\ failed_proxies = {1}
    /\ \A t \in Threads : thread[t].pc = "idle" /\ thread[t].op = "none"

\* ---- C25
\* C25: get_next_proxy and mark_proxy_failed are atomic with respect to
\* each other, so the clear of a get_next_proxy empties a failed set that
\* covers every endpoint, as the call found it (or one that another call
\* has emptied already); it never erases the marks that were made after the
\* call examined the set and that cover only a part of the pool.
C25_Atomic ==
    [][\A t \in Threads :
          GetClear(t) => failed_proxies = Indexes \/ failed_proxies = {}]_vars

\* ---- C26
\* A response with none of the three statuses and no indicator in its body.
NotBlocked(o) ==
    o.kind = "response" /\ o.status \notin {403, 429, 503} /\ ~o.text

\* C26: a make_request call makes at most 3 attempts and at most one
\* session.get per attempt, and the first response that is not judged
\* blocked ends the call at once: it is what make_request returns.
C26_BoundedAttempts ==
    /\ [](\A t \in Threads :
             /\ thread[t].attempt < MaxAttempts
             /\ thread[t].gets <= MaxAttempts
             /\ thread[t].gets <= thread[t].attempt + 1
             /\ thread[t].headers <= thread[t].attempt + 1)
    /\ [][\A t \in Threads, o \in Outcomes :
             Respond(t, o) /\ NotBlocked(o)
                => /\ thread'[t].pc = "done"
                   /\ thread'[t].result = "returned"
                   /\ thread'[t].response = o
                   /\ thread'[t].gets = thread[t].attempt + 1]_vars

\* make_request has returned the response of its third session.get, which
\* is not blocked, after two attempts that failed.
C26_Witness ==
    \E t \in Threads :
        /\ thread[t].pc = "done" /\ thread[t].result = "returned"
        /\ thread[t].attempt = 2 /\ thread[t].gets = 3
        /\ NotBlocked(thread[t].response)

\* ---- C27
\* C27: when the third attempt fails too (a blocked response or an
\* exception) make_request raises; make_request never returns a response
\* that is judged blocked: status 403, 429 or 503, or a blocking phrase in
\* the body.
C27_NeverReturnsBlocked ==
    \A t \in Threads :
        thread[t].pc = "done" =>
            IF NotBlocked(thread[t].response)
            THEN thread[t].result = "returned"
            ELSE thread[t].result = "raised"

\* ---- C28
\* The attempt of thread t ends blocked or with a ProxyError.
EndsPenalized(t, o) ==
    /\ Respond(t, o)
    /\ o = ProxyError \/ (o.kind = "response" /\ ~NotBlocked(o))

\* C28: when an attempt through a proxy ends blocked or with a ProxyError,
\* the index of that proxy is in the failed set as the attempt ends, on the
\* last attempt too, hence before the next proxy is selected; unless it was
\* the last attempt the call goes on to another attempt, and every attempt
\* reaches its session.get through new headers and a new get_next_proxy.
C28_MarkedBeforeNext ==
    /\ [][\A t \in Threads, o \in Outcomes :
             EndsPenalized(t, o) =>
                /\ thread[t].proxy # NoProxy
                      => \E i \in failed_proxies' : At(i) = thread[t].proxy
                /\ thread[t].attempt < MaxAttempts - 1
                      => /\ thread'[t].pc = "attempt"
                         /\ thread'[t].attempt = thread[t].attempt + 1]_vars
    /\ [][\A t \in Threads :
             thread'[t].pc = "request" /\ thread[t].pc # "request"
                => GetReturns(t)]_vars
    /\ [](\A t \in Threads :
             /\ thread[t].pc = "attempt" => ENABLED GetRequestConfig(t)
             /\ thread[t].pc = "request"
                   => thread[t].headers = thread[t].attempt + 1)

\* The first attempt went through the first proxy, which is now failed; the
\* second attempt has its own headers and the second proxy.
C28_Witness ==
    \E t \in Threads :
        /\ Len(proxies) = 2
        /\ thread[t].pc = "request" /\ thread[t].attempt = 1
        /\ thread[t].headers = 2
        /\ thread[t].proxy = At(1)
        /\ failed_proxies = {0}

\* ---- C29
\* The two calls name the same function with the same positional arguments
\* in the same order and the same keyword arguments in any order.
SameCall(a, b) ==
    /\ a.name = b.name
    /\ a.args = b.args
    /\ Range(a.kwargs) = Range(b.kwargs)

\* C29: two calls with the same function name, the same positional
\* arguments and the same keyword arguments, in whatever order these were
\* written, derive the same key; two calls that differ in the name or in
\* the value of an argument derive different canonical forms (key_str).
C29_KeyCanonical ==
    Len(generated) = 2 =>
        IF SameCall(generated[1].call, generated[2].call)
        THEN generated[1].key = generated[2].key
        ELSE generated[1].key_str # generated[2].key_str

\* The part of C29 that the code keeps: the key depends on nothing but the
\* name, the positional arguments and the set of keyword arguments.
C29_SameCallSameKey ==
    Len(generated) = 2 /\ SameCall(generated[1].call, generated[2].call)
        => generated[1].key = generated[2].key

\* ---- C30
\* C30: the timer of a task that is still known sets the task to PENDING
\* and inserts it by the rule of add_task: behind every queued task of
\* equal or higher priority and ahead of every task of strictly lower
\* priority, the rest of the queue as it was; so it stands behind the tasks
\* of its own priority that were added while it was backing off.
C30_RetryReinserts ==
    [][\A tm \in timers :
          RetryTask(tm) /\ tm.id \in DOMAIN tasks =>
             /\ tasks'[tm.id].status = PENDING
             /\ tasks'[tm.id].priority = tasks[tm.id].priority
             /\ \E k \in 1..Len(queue') :
                   /\ queue'[k] = tm.id
                   /\ Drop(queue', k) = queue
                   /\ \A i \in 1..(k - 1) :
                          tasks'[queue'[i]].priority >= tasks'[tm.id].priority
                   /\ \A i \in (k + 1)..Len(queue') :
                          tasks'[queue'[i]].priority < tasks'[tm.id].priority]_vars

\* A task that has failed once is back in the queue, PENDING, behind a task
\* of its own priority that was added after it and has not run yet.
C30_Witness ==
    \E a, b \in DOMAIN tasks :
        /\ a < b
        /\ tasks[a].priority = tasks[b].priority
        /\ tasks[a].retry_count = 1 /\ tasks[a].status = PENDING
        /\ calls[b] = 0
        /\ In(queue, a) /\ In(queue, b)
        /\ Index(queue, b) < Index(queue, a)

\* ---- C31
\* C31: whenever no thread is inside a locked section, every task whose
\* status is COMPLETED or FAILED, a cancelled one included, has
\* completed_at set (so that clear_completed_tasks can remove it once the
\* cutoff has passed it).
C31_TerminalHasCompletedAt ==
    LockFree =>
        \A id \in DOMAIN tasks :
            tasks[id].status \in {COMPLETED, FAILED}
                => tasks[id].completed_at # 0

\* ---- C32
\* C32: whenever get_queue_status can run (no thread holds the lock), the
\* pending count it reports is the number of tasks whose status is PENDING
\* and the processing count is the number of tasks whose status is
\* PROCESSING.
C32_CountsByStatus ==
    LockFree =>
        /\ GetQueueStatus.pending_tasks = Cardinality(WithStatus(PENDING))
        /\ GetQueueStatus.processing_tasks
              = Cardinality(WithStatus(PROCESSING))

\* ---- C33
\* C33: set(k, d, ttl) on a key that is stored evicts nothing, also in a
\* full cache: the entry of k gets the data d, the timestamp of the call
\* and the ttl (default_ttl for None), k becomes the last of access_order,
\* and the stored keys, the other entries, the order of the other keys and
\* the statistics (evictions included) stay as they were.
C33_SetExistingKey ==
    [][\A k \in Keys, d \in Data, ttl \in TtlArgs :
          Set(k, d, ttl) /\ k \in DOMAIN cache =>
             /\ DOMAIN cache' = DOMAIN cache
             /\ cache'[k].data = d
             /\ cache'[k].timestamp = now
             /\ cache'[k].ttl = (IF ttl = None THEN DefaultTtl ELSE ttl)
             /\ \A other \in DOMAIN cache \ {k} : cache'[other] = cache[other]
             /\ access_order'[Len(access_order')] = k
             /\ Without(access_order', k) = Without(access_order, k)
             /\ cache_stats' = cache_stats]_vars

\* A full cache of two entries in which nothing was ever evicted: the key
\* set last carries the time of that set and a new value, the other entry
\* is older and stands before it.
C33_Witness ==
    /\ max_size = 2 /\ Cardinality(DOMAIN cache) = 2
    /\ cache_stats.evictions = 0
    /\ access_order = <<"b", "a">>
    /\ cache["a"].timestamp = 2 /\ cache["a"].data = "y"
    /\ cache["b"].timestamp = 1

\* ---- C34
\* The entries older than their ttl at this moment.
Outdated == {k \in DOMAIN cache : Age(k) > cache[k].ttl}

\* C34: cleanup_expired removes exactly the entries that are expired when
\* it is called, returns their number and adds it to expired_cleanups;
\* every other entry stays as it is, the keys that remain keep their order
\* in access_order, and hits, misses and evictions do not change.
C34_CleanupFrame ==
    [][CleanupExpired =>
          /\ DOMAIN cache' = DOMAIN cache \ Outdated
          /\ \A k \in DOMAIN cache' : cache'[k] = cache[k]
          /\ CleanupReturn = Cardinality(Outdated)
          /\ cache_stats' = [cache_stats EXCEPT
                                !.expired_cleanups = @ + Cardinality(Outdated)]
          /\ access_order' = WithoutAll(access_order, Outdated)
          /\ \A a, b \in DOMAIN cache' :
                (In(access_order, a) /\ In(access_order, b)
                 /\ Index(access_order, a) < Index(access_order, b))
                    => Index(access_order', a) < Index(access_order', b)]_vars

\* An entry has been swept (no get has removed it: misses is 0) and an
\* entry that was stored before the sweep and is not expired remains.
C34_Witness ==
    /\ cache_stats.expired_cleanups = 1
    /\ cache_stats.misses = 0
    /\ Cardinality(DOMAIN cache) = 1
    /\ \A k \in DOMAIN cache : Age(k) <= cache[k].ttl /\ cache[k].timestamp < now

\* ---- C35
\* C35: an expired entry that is still stored does not count toward the
\* capacity of set(): a set of a new key into a cache that holds max_size
\* entries, one of them expired, evicts no entry that is not expired.
C35_ExpiredNotCounted ==
    [][\A k \in Keys, d \in Data, ttl \in TtlArgs :
          (/\ Set(k, d, ttl)
           /\ k \notin DOMAIN cache
           /\ Cardinality(DOMAIN cache) = max_size
           /\ Outdated # {})
              => DOMAIN cache \ Outdated \subseteq DOMAIN cache']_vars

\* ---- C36
\* C36: in every state of the cache, whatever the order of get, set,
\* delete, clear, cleanup_expired and the cleanup thread, access_order holds
\* exactly the keys of cache, each once; so the key _evict_lru pops is
\* stored, and the key a get repositions is in the list.
C36_OrderMatchesCache ==
    /\ Range(access_order) = DOMAIN cache
    /\ Len(access_order) = Cardinality(DOMAIN cache)
    /\ access_order # <<>> => Head(access_order) \in DOMAIN cache

\* Entries were evicted, swept and hit, and two keys are stored; the one
\* stored first is the more recent.
C36_Witness ==
    /\ cache_stats.evictions > 0
    /\ cache_stats.expired_cleanups > 0
    /\ cache_stats.hits > 0
    /\ access_order = <<"b", "a">>
    /\ cache["a"].timestamp < cache["b"].timestamp

\* ---- C37
\* C37: a wrapper call whose key has an entry that is not expired returns
\* the stored result without invoking the function; any other call invokes
\* the function exactly once and stores its result, with the ttl of the
\* wrapper, exactly when the result is not None; and while the function
\* runs the lock of the cache is free for other threads.
C37_ReadThrough ==
    /\ [][\A k \in Keys : WrapperCall(k) =>
             IF k \in DOMAIN cache /\ Age(k) <= cache[k].ttl
             THEN /\ cached_call'.pc = "idle"
                  /\ cached_call'.invoked = 0
                  /\ cached_call'.returned = cache[k].data
             ELSE /\ cached_call'.pc = "func"
                  /\ cached_call'.invoked = 0
                  /\ cached_call'.key = k]_vars
    /\ [][\A result \in FuncOutcomes : WrapperFunc(result) =>
             /\ cached_call'.pc = "idle"
             /\ cached_call'.invoked = 1
             /\ cached_call'.returned = result
             /\ IF result \in Data
                THEN /\ cached_call.key \in DOMAIN cache'
                     /\ cache'[cached_call.key].data = result
                     /\ cache'[cached_call.key].ttl = cached_call.ttl
                     /\ cache'[cached_call.key].timestamp = now
                ELSE cache' = cache]_vars
    /\ [](cached_call.invoked <= 1)
    /\ [](cached_call.pc = "func" => ENABLED CleanupWorker)

\* The call has returned the stored result of an earlier call of the same
\* key (one miss, one hit) without invoking the function.
C37_Witness ==
    /\ cached_call.pc = "idle" /\ cached_call.invoked = 0
    /\ cached_call.key \in DOMAIN cache
    /\ cached_call.returned = cache[cached_call.key].data
    /\ cache[cached_call.key].access_count = 1
    /\ cache_stats.hits = 1 /\ cache_stats.misses = 1

\* ---- C38
\* The outcome of an attempt that make_request answers by marking the proxy.
Penalized(o) == o = ProxyError \/ (o.kind = "response" /\ ~NotBlocked(o))

\* Thread t is in make_request, after an attempt through a proxy that ended
\* blocked or with a ProxyError.
AfterPenalized(t) ==
    /\ thread[t].op = "execute" /\ thread[t].attempt > 0
    /\ Penalized(thread[t].response)
    /\ thread[t].proxy # NoProxy

QueueIds == {queue[i] : i \in DOMAIN queue}

QueueIdsExist == QueueIds \subseteq DOMAIN tasks

QueueNoDuplicates ==
    \A i, j \in DOMAIN queue : queue[i] = queue[j] => i = j

QueueApartFromProcessing == QueueIds \cap processing = {}

\* C40: in every reachable state, whatever the interleaving of add_task, the
\* worker, the retry timers, cancel_task and clear_completed_tasks, every id
\* of the queue is in self.tasks, no id is in the queue twice, and no id is
\* in the queue and in the processing set.
C40_QueueWellFormed ==
    /\ QueueIdsExist
    /\ QueueNoDuplicates
    /\ QueueApartFromProcessing


\* ---- C39
\* The task id is at rest: COMPLETED or FAILED while it is in self.tasks,
\* and neither in the queue nor in the processing set.
Settled(id) ==
    /\ id \in DOMAIN tasks => tasks[id].status \in {COMPLETED, FAILED}
    /\ id \notin QueueIds
    /\ id \notin processing

====
